---- MODULE Spec2Model ----
(***************************************************************************)
(* The user service of main.go: three HTTP handlers (createUser, getUser,  *)
(* deleteUser) run concurrently, one goroutine per request, over the       *)
(* package-level map userCache and the sync.RWMutex cacheMutex.            *)
(*                                                                         *)
(* A request is a process.  Its handler is cut into steps where another    *)
(* handler can observe the difference: code that only touches the          *)
(* request's own locals belongs to the step before it, and so does code    *)
(* run under the exclusive lock up to the start of the map write.  A map   *)
(* write (mapassign, mapdelete) is not atomic in Go: it begins in one step *)
(* and is complete in a later one, and between them the map is partially   *)
(* updated (mapWriting, the runtime's hashWriting flag).  A map read made  *)
(* while the map is being written is a data race: its outcome is any       *)
(* value, or the runtime's fatal error "concurrent map read and map        *)
(* write".                                                                 *)
(***************************************************************************)
EXTENDS Integers, Sequences, FiniteSets, TLC

\* Number of HTTP requests the server receives in a run.
MaxRequests == 3

\* Number of clients: each sends a request and waits for its answer before
\* it sends another, so this many handlers run at the same time.
MaxClients == 2

\* Names that occur in request bodies.
Names == {"Alice", "Bob"}

\* type User struct { Name string }
User(n) == [Name |-> n]

\* The zero value of User.
ZeroUser == User("")

\* HTTP status codes used by the handlers.
StatusOK == 200
StatusNoContent == 204
StatusBadRequest == 400
StatusNotFound == 404

----------------------------------------------------------------------------
(* Inputs and the conversions applied to them.                             *)

\* A request body: not JSON at all, or a JSON object whose "name" member is
\* missing (<<>>) or a string (<<s>>).
Bodies ==
    {[syntax |-> FALSE, name |-> <<>>]}
    \cup {[syntax |-> TRUE, name |-> v] : v \in {<<>>} \cup {<<n>> : n \in Names \cup {""}}}

\* json.NewDecoder(r.Body).Decode(&user): an error on malformed JSON; a
\* missing member leaves the field at its zero value.
Decode(b) ==
    IF ~b.syntax
    THEN [err |-> TRUE, user |-> ZeroUser]
    ELSE [err |-> FALSE, user |-> User(IF b.name = <<>> THEN "" ELSE b.name[1])]

\* json.Marshal(user): the JSON object {"name": user.Name}; it cannot fail
\* for a struct of one string.
Marshal(u) == [syntax |-> TRUE, name |-> <<u.Name>>]

\* The {id} path segments tried, as sequences of characters.
PathValues == {<<"1">>, <<"2">>, <<"x">>}

DigitChars == {"0", "1", "2", "3", "4", "5", "6", "7", "8", "9"}

DigitVal(c) ==
    CASE c = "0" -> 0 [] c = "1" -> 1 [] c = "2" -> 2 [] c = "3" -> 3
      [] c = "4" -> 4 [] c = "5" -> 5 [] c = "6" -> 6 [] c = "7" -> 7
      [] c = "8" -> 8 [] c = "9" -> 9

RECURSIVE DigitsVal(_)
DigitsVal(s) ==
    IF s = <<>> THEN 0
    ELSE 10 * DigitsVal(SubSeq(s, 1, Len(s) - 1)) + DigitVal(s[Len(s)])

\* strconv.Atoi: an optional sign, then one or more decimal digits.
Atoi(s) ==
    LET signed == s # <<>> /\ s[1] \in {"+", "-"}
        digits == IF signed THEN Tail(s) ELSE s
    IN IF digits = <<>> \/ \E i \in 1..Len(digits) : digits[i] \notin DigitChars
       THEN [err |-> TRUE, id |-> 0]
       ELSE [err |-> FALSE,
             id |-> IF signed /\ s[1] = "-" THEN 0 - DigitsVal(digits)
                    ELSE DigitsVal(digits)]

\* The response before the handler has written one.
NoResponse == [status |-> 0, body |-> <<>>]

Response(st, body) == [status |-> st, body |-> body]

----------------------------------------------------------------------------
VARIABLES
    userCache,   \* var userCache = make(map[int]User)
    mutexW,      \* cacheMutex: the request holding it exclusively, or 0
    mutexR,      \* cacheMutex: the requests holding it shared
    mapWriting,  \* <<k>> while a write of key k to userCache is in progress
    crashed,     \* the runtime has thrown a fatal error: the process is gone
    clients,     \* environment: the number of clients of the run
    pc,          \* per request: where its handler stands
    req,         \* per request: method and input (body or path value)
    id,          \* per request: local id
    user,        \* per request: local user
    ok,          \* per request: local ok
    key,         \* per request: the value of len(userCache)+1 it computed
    resp,        \* per request: the response written
    log,         \* history: the requests that wrote the map, in order
    acquired,    \* history: the requests that ever took cacheMutex
    eff,         \* history: per request, was its id in the map at its last map access
    seen         \* history: per GET, the contents of its id since it arrived

shared == <<userCache, mutexW, mutexR, mapWriting, crashed, clients>>
locals == <<id, user, ok, key>>
ghosts == <<log, acquired, eff, seen>>
vars == <<userCache, mutexW, mutexR, mapWriting, crashed, clients, pc, req, id, user, ok,
          key, resp, log, acquired, eff, seen>>

\* The requests of the run, numbered in the order of their arrival.
Requests == DOMAIN pc

\* The content of the map at key k: <<u>> if present, <<>> if absent.
Content(m, k) == IF k \in DOMAIN m THEN <<m[k]>> ELSE <<>>

\* userCache[k] = u
MapAssign(m, k, u) == [j \in DOMAIN m \cup {k} |-> IF j = k THEN u ELSE m[j]]

\* A delete that empties the map.
MapDeleteAll(m, k) == [j \in {} |-> ZeroUser]

\* delete(userCache, k)
MapDelete(m, k) == [j \in DOMAIN m \ {k} |-> m[j]]

\* The size of the map taken for the next id, without the +1.
NextKeyZero(m) == Cardinality(DOMAIN m)

\* len(userCache)+1
NextKey(m) == Cardinality(DOMAIN m) + 1

\* user, ok := userCache[k].  Properly synchronised it yields the entry; made
\* while a write is in progress it is a data race, which yields anything or
\* the runtime's fatal error.
MapAccess(k) ==
    IF mapWriting = <<>>
    THEN {[fatal |-> FALSE, ok |-> k \in DOMAIN userCache,
           user |-> IF k \in DOMAIN userCache THEN userCache[k] ELSE ZeroUser]}
    ELSE {[fatal |-> TRUE, ok |-> FALSE, user |-> ZeroUser]}
         \cup {[fatal |-> FALSE, ok |-> FALSE, user |-> ZeroUser]}
         \cup {[fatal |-> FALSE, ok |-> TRUE, user |-> User(n)] : n \in Names}

\* Whether key k is in the map, as far as that is determined: while k itself
\* is being written it is not.
Truth(k) ==
    IF mapWriting = <<k>> THEN "changing"
    ELSE IF k \in DOMAIN userCache THEN "present" ELSE "absent"

\* A cacheMutex that excludes nobody.
CanLockAlways == TRUE

\* cacheMutex.Lock() can return.
CanLock == mutexW = 0 /\ mutexR = {}

\* An RLock that does not wait for the writer.
CanRLockAlways == TRUE

\* cacheMutex.RLock() can return.
CanRLock == mutexW = 0

\* A handler that does not check the name.
NameMissingNever(u) == FALSE

\* user.Name == ""
NameMissing(u) == u.Name = ""

\* The GETs that have arrived and not yet read the map.
PendingGets == {q \in Requests : pc[q] = "g_rlock"}

\* seen, after the map has become m.
Observe(m) ==
    [q \in Requests |->
        IF q \in PendingGets THEN seen[q] \cup {Content(m, id[q])} ELSE seen[q]]

\* The requests whose handlers are running.
InFlight == {q \in Requests : pc[q] \notin {"idle", "done"}}

\* Requests arrive in the order of their numbers.
CanArrive(r) ==
    /\ r \in Requests
    /\ ~crashed
    /\ pc[r] = "idle"
    /\ \A q \in 1..(r - 1) : pc[q] # "idle"
    /\ Cardinality(InFlight) < clients

\* The handler of request r is running and stands at label l.
At(r, l) == r \in Requests /\ ~crashed /\ pc[r] = l

\* The server has started: the map is empty, the mutex free, and the
\* requests R are yet to arrive.
Start(R, c) ==
    /\ userCache = [k \in {} |-> ZeroUser]
    /\ mutexW = 0
    /\ mutexR = {}
    /\ mapWriting = <<>>
    /\ crashed = FALSE
    /\ clients = c
    /\ pc = [r \in R |-> "idle"]
    /\ req = [r \in R |-> [method |-> "", body |-> <<>>, path |-> <<>>]]
    /\ id = [r \in R |-> 0]
    /\ user = [r \in R |-> ZeroUser]
    /\ ok = [r \in R |-> FALSE]
    /\ key = [r \in R |-> 0]
    /\ resp = [r \in R |-> NoResponse]
    /\ log = <<>>
    /\ acquired = {}
    /\ eff = [r \in R |-> "none"]
    /\ seen = [r \in R |-> {}]

Init == Start(1..MaxRequests, MaxClients)

----------------------------------------------------------------------------
(* createUser                                                              *)

\* POST /users arrives: decode the body, check the name.
CreateUserDecode(r) ==
    /\ CanArrive(r)
    /\ \E b \in Bodies :
         LET d == Decode(b) IN
         /\ req' = [req EXCEPT ![r] = [method |-> "POST", body |-> <<b>>, path |-> <<>>]]
         /\ user' = [user EXCEPT ![r] = d.user]
         /\ IF d.err \/ NameMissing(d.user)
            THEN /\ resp' = [resp EXCEPT ![r] = Response(StatusBadRequest, <<>>)]
                 /\ pc' = [pc EXCEPT ![r] = "done"]
            ELSE /\ resp' = resp
                 /\ pc' = [pc EXCEPT ![r] = "c_lock"]
    /\ UNCHANGED <<shared, id, ok, key, ghosts>>

\* cacheMutex.Lock(); then len(userCache)+1 is evaluated and the write
\* userCache[...] = user begins
CreateUserLock(r) ==
    /\ At(r, "c_lock")
    /\ CanLock
    /\ mutexW' = r
    /\ acquired' = acquired \cup {r}
    /\ key' = [key EXCEPT ![r] = NextKey(userCache)]
    /\ mapWriting' = <<key'[r]>>
    /\ pc' = [pc EXCEPT ![r] = "c_assign"]
    /\ UNCHANGED <<userCache, mutexR, crashed, clients, req, id, user, ok, resp, log, eff, seen>>

\* the write userCache[...] = user is complete; cacheMutex.Unlock();
\* w.WriteHeader(http.StatusNoContent)
CreateUserAssign(r) ==
    /\ At(r, "c_assign")
    /\ userCache' = MapAssign(userCache, key[r], user[r])
    /\ mapWriting' = <<>>
    /\ mutexW' = 0
    /\ log' = Append(log, r)
    /\ seen' = Observe(userCache')
    /\ resp' = [resp EXCEPT ![r] = Response(StatusNoContent, <<>>)]
    /\ pc' = [pc EXCEPT ![r] = "done"]
    /\ UNCHANGED <<mutexR, crashed, clients, req, locals, acquired, eff>>

----------------------------------------------------------------------------
(* getUser                                                                 *)

\* GET /users/{id} arrives: parse the id.
GetUserParse(r) ==
    /\ CanArrive(r)
    /\ \E s \in PathValues :
         LET a == Atoi(s) IN
         /\ req' = [req EXCEPT ![r] = [method |-> "GET", body |-> <<>>, path |-> s]]
         /\ id' = [id EXCEPT ![r] = a.id]
         /\ IF a.err
            THEN /\ resp' = [resp EXCEPT ![r] = Response(StatusBadRequest, <<>>)]
                 /\ pc' = [pc EXCEPT ![r] = "done"]
                 /\ seen' = seen
            ELSE /\ resp' = resp
                 /\ pc' = [pc EXCEPT ![r] = "g_rlock"]
                 /\ seen' = [seen EXCEPT ![r] = {Content(userCache, a.id)}]
    /\ UNCHANGED <<shared, user, ok, key, log, acquired, eff>>

\* cacheMutex.RLock(); user, ok := userCache[id]
GetUserRLock(r) ==
    /\ At(r, "g_rlock")
    /\ CanRLock
    /\ \E o \in MapAccess(id[r]) :
         IF o.fatal
         THEN /\ crashed' = TRUE
              /\ UNCHANGED <<pc, user, ok, eff, mutexR, acquired>>
         ELSE /\ crashed' = crashed
              /\ mutexR' = mutexR \cup {r}
              /\ acquired' = acquired \cup {r}
              /\ user' = [user EXCEPT ![r] = o.user]
              /\ ok' = [ok EXCEPT ![r] = o.ok]
              /\ eff' = [eff EXCEPT ![r] = Truth(id[r])]
              /\ pc' = [pc EXCEPT ![r] = "g_runlock"]
    /\ UNCHANGED <<userCache, mutexW, mapWriting, clients, req, id, key, resp, log, seen>>

\* cacheMutex.RUnlock(), then the response: 404, or 200 with the JSON of user
GetUserRUnlock(r) ==
    /\ At(r, "g_runlock")
    /\ mutexR' = mutexR \ {r}
    /\ resp' = [resp EXCEPT ![r] =
                   IF ~ok[r] THEN Response(StatusNotFound, <<>>)
                   ELSE Response(StatusOK, <<Marshal(user[r])>>)]
    /\ pc' = [pc EXCEPT ![r] = "done"]
    /\ UNCHANGED <<userCache, mutexW, mapWriting, crashed, clients, req, locals, ghosts>>

----------------------------------------------------------------------------
(* deleteUser                                                              *)

\* DELETE /users/{id} arrives: parse the id.
DeleteUserParse(r) ==
    /\ CanArrive(r)
    /\ \E s \in PathValues :
         LET a == Atoi(s) IN
         /\ req' = [req EXCEPT ![r] = [method |-> "DELETE", body |-> <<>>, path |-> s]]
         /\ id' = [id EXCEPT ![r] = a.id]
         /\ IF a.err
            THEN /\ resp' = [resp EXCEPT ![r] = Response(StatusBadRequest, <<>>)]
                 /\ pc' = [pc EXCEPT ![r] = "done"]
            ELSE /\ resp' = resp
                 /\ pc' = [pc EXCEPT ![r] = "d_check"]
    /\ UNCHANGED <<shared, user, ok, key, ghosts>>

\* if _, ok := userCache[id]; !ok { 404 }   -- cacheMutex is not held
DeleteUserCheck(r) ==
    /\ At(r, "d_check")
    /\ \E o \in MapAccess(id[r]) :
         IF o.fatal
         THEN /\ crashed' = TRUE
              /\ UNCHANGED <<pc, ok, eff, resp>>
         ELSE /\ crashed' = crashed
              /\ ok' = [ok EXCEPT ![r] = o.ok]
              /\ eff' = [eff EXCEPT ![r] = Truth(id[r])]
              /\ IF ~o.ok
                 THEN /\ resp' = [resp EXCEPT ![r] = Response(StatusNotFound, <<>>)]
                      /\ pc' = [pc EXCEPT ![r] = "done"]
                 ELSE /\ resp' = resp
                      /\ pc' = [pc EXCEPT ![r] = "d_lock"]
    /\ UNCHANGED <<userCache, mutexW, mutexR, mapWriting, clients, req, id, user, key, log, acquired, seen>>

\* cacheMutex.Lock(); then the write delete(userCache, id) begins
DeleteUserLock(r) ==
    /\ At(r, "d_lock")
    /\ CanLock
    /\ mutexW' = r
    /\ acquired' = acquired \cup {r}
    /\ mapWriting' = <<id[r]>>
    /\ pc' = [pc EXCEPT ![r] = "d_delete"]
    /\ UNCHANGED <<userCache, mutexR, crashed, clients, req, locals, resp, log, eff, seen>>

\* the write delete(userCache, id) is complete; cacheMutex.Unlock();
\* w.WriteHeader(http.StatusNoContent)
DeleteUserDelete(r) ==
    /\ At(r, "d_delete")
    /\ userCache' = MapDelete(userCache, id[r])
    /\ mapWriting' = <<>>
    /\ mutexW' = 0
    /\ log' = Append(log, r)
    /\ eff' = [eff EXCEPT ![r] = IF id[r] \in DOMAIN userCache THEN "present" ELSE "absent"]
    /\ seen' = Observe(userCache')
    /\ resp' = [resp EXCEPT ![r] = Response(StatusNoContent, <<>>)]
    /\ pc' = [pc EXCEPT ![r] = "done"]
    /\ UNCHANGED <<mutexR, crashed, clients, req, locals, acquired>>

----------------------------------------------------------------------------
createUser(r) ==
    \/ CreateUserDecode(r)
    \/ CreateUserLock(r)
    \/ CreateUserAssign(r)

getUser(r) ==
    \/ GetUserParse(r)
    \/ GetUserRLock(r)
    \/ GetUserRUnlock(r)

deleteUser(r) ==
    \/ DeleteUserParse(r)
    \/ DeleteUserCheck(r)
    \/ DeleteUserLock(r)
    \/ DeleteUserDelete(r)

Next == \E r \in 1..(MaxRequests + 2) : createUser(r) \/ getUser(r) \/ deleteUser(r)

Spec == Init /\ [][Next]_vars

\* One client, which sends two requests more.
InitSerial == Start(1..(MaxRequests + 2), 1)

SpecSerial == InitSerial /\ [][Next]_vars

\* The Go scheduler runs every goroutine that can run, and a goroutine
\* blocked in Lock or RLock is woken once the mutex is free.
FairSpec ==
    Spec /\ \A r \in 1..(MaxRequests + 2) :
                WF_vars(createUser(r) \/ getUser(r) \/ deleteUser(r))

----------------------------------------------------------------------------
(* What the history says.                                                  *)

\* The positions of the log at which a createUser stored an entry, and at
\* which a deleteUser executed delete: every one of these was answered 204.
Inserts == {n \in DOMAIN log : req[log[n]].method = "POST"}
Deletes == {n \in DOMAIN log : req[log[n]].method = "DELETE"}

\* The requests that have been answered.
Answered(method) == {r \in Requests : req[r].method = method /\ pc[r] = "done"}

\* A body that is no valid user: malformed, or the name missing or empty.
InvalidBody(b) == ~b.syntax \/ b.name = <<>> \/ b.name = <<"">>

\* A path segment that is no integer: empty, a sign alone, or with a
\* character that is neither a digit nor a leading sign.
InvalidPath(s) ==
    \/ s \in {<<>>, <<"+">>, <<"-">>}
    \/ \E i \in DOMAIN s :
          s[i] \notin DigitChars \cup (IF i = 1 THEN {"+", "-"} ELSE {})

\* What a GET has to answer when the map holds c (<<>> or <<u>>) at its id.
AnswerFor(c) ==
    IF c = <<>> THEN [status |-> 404, body |-> <<>>]
    ELSE [status |-> 200, body |-> <<[syntax |-> TRUE, name |-> <<c[1].Name>>]>>]

----------------------------------------------------------------------------
\* C1: as long as no Delete has been executed, the Inserts that have stored
\* their record, in whatever order their handlers interleaved, have stored
\* them under pairwise distinct ids: n Inserts leave exactly n entries.
C1_DistinctIdsWithoutDelete ==
    Deletes = {} =>
        /\ Cardinality(DOMAIN userCache) = Len(log)
        /\ \A m, n \in Inserts : m # n => key[log[m]] # key[log[n]]

\* Two Inserts whose handlers ran at the same time, the one that arrived
\* later storing first, and no Delete.
C1_Witness ==
    /\ Deletes = {}
    /\ Len(log) = 2
    /\ log[1] > log[2]

\* C2 (as claimed): the id an Insert assigns differs from the id of every
\* earlier Insert, whether that entry is still present or not.
C2_FreshIds ==
    \A m, n \in Inserts : m < n => key[log[m]] # key[log[n]]

\* C3 (as claimed): once a Delete of id i has been executed, i is never in
\* the mapping again.
C3_NoReuseAfterDelete ==
    \A n \in Deletes : id[log[n]] \notin DOMAIN userCache

\* C4 (as claimed): no handler reads userCache while another handler is
\* writing it.  deleteUser's existence check is the read that stands at
\* "d_check"; getUser's read is made in the step that takes the read lock.
C4_NoReadWhileWriting ==
    \A r \in Requests : pc[r] = "d_check" => mapWriting = <<>>

\* C5 (as claimed): of the Deletes of an id that was inserted once, at most
\* one is answered 204.
C5_OneDeleteSucceeds ==
    \A i \in DOMAIN userCache \cup {id[r] : r \in Requests} :
        Cardinality({n \in Inserts : key[log[n]] = i}) = 1 =>
            Cardinality({r \in Answered("DELETE") :
                            id[r] = i /\ resp[r].status = StatusNoContent}) <= 1

\* C6 (as claimed): a Get of id i returns the record r that an Insert stored
\* under i, whatever other Inserts, and Gets and Deletes of other ids, have
\* happened since, as long as no Delete of i has.  The Get stands at
\* "g_runlock": it has read the map and still holds the read lock.
C6_GetReturnsInserted ==
    \A g \in Requests : \A n \in Inserts :
        (/\ pc[g] = "g_runlock"
         /\ key[log[n]] = id[g]
         /\ \A d \in Deletes : d > n => id[log[d]] # id[g])
        => ok[g] /\ user[g] = user[log[n]]

\* C7 (as claimed): a Get or a Delete whose id is not in the mapping when it
\* accesses it is answered 404 and has not written the mapping.
C7_AbsentIsNotFound ==
    \A r \in Answered("GET") \cup Answered("DELETE") :
        eff[r] = "absent" =>
            resp[r].status = StatusNotFound /\ \A n \in DOMAIN log : log[n] # r

\* C8 (as claimed): a Delete whose id is in the mapping when it accesses it is
\* answered 204 and has removed the entry; and a Get that reads the map after
\* a Delete of its id, with no Insert since, finds nothing.
C8_DeletePresent ==
    /\ \A r \in Answered("DELETE") :
          eff[r] = "present" =>
              resp[r].status = StatusNoContent /\ \E n \in Deletes : log[n] = r
    /\ \A g \in Requests :
          (/\ pc[g] = "g_runlock"
           /\ \E d \in Deletes : id[log[d]] = id[g] /\ \A n \in Inserts : n < d)
          => ~ok[g]

\* C9: an Insert whose body is malformed, or whose name is missing or empty,
\* is answered 400 at once; it never takes cacheMutex and never writes the
\* mapping.
C9_InvalidInsertRejected ==
    \A r \in Requests :
        (req[r].method = "POST" /\ InvalidBody(req[r].body[1])) =>
            /\ pc[r] = "done"
            /\ resp[r] = [status |-> 400, body |-> <<>>]
            /\ r \notin acquired
            /\ \A n \in DOMAIN log : log[n] # r

\* An Insert without a name has been rejected while the mapping holds an
\* entry.
C9_Witness ==
    \E r \in Answered("POST") :
        /\ req[r].body[1] = [syntax |-> TRUE, name |-> <<>>]
        /\ resp[r].status = StatusBadRequest
        /\ userCache # <<>>

\* C10: what a Get has read, and what it answers, is the content the mapping
\* had at its id in some state between the arrival of the Get and its read:
\* a whole record, or nothing.
C10_GetSeesWholeState ==
    \A r \in Requests :
        /\ pc[r] = "g_runlock" => (IF ok[r] THEN <<user[r]>> ELSE <<>>) \in seen[r]
        /\ (r \in Answered("GET") /\ resp[r].status # StatusBadRequest) =>
               resp[r] \in {AnswerFor(c) : c \in seen[r]}

\* A Get that arrived before an Insert and read after it has answered with
\* the record.
C10_Witness ==
    \E r \in Answered("GET") :
        /\ seen[r] = {<<>>, <<User("Bob")>>}
        /\ resp[r] = [status |-> 200, body |-> <<[syntax |-> TRUE, name |-> <<"Bob">>]>>]

\* C11: every id in the mapping is a positive integer under which an Insert
\* has stored its record, with no Delete of that id executed since; the
\* record is the one of such an Insert and its name is not empty.  The id is
\* the one createUser computed: a request carries none (a body has only a
\* name, and a path id is never a key of a write other than delete).
C11_PresentIdsWereAssigned ==
    \A i \in DOMAIN userCache :
        /\ i \in Nat \ {0}
        /\ userCache[i].Name # ""
        /\ \E n \in Inserts :
              /\ key[log[n]] = i
              /\ userCache[i] = User(req[log[n]].body[1].name[1])
              /\ \A d \in Deletes : d > n => id[log[d]] # i

\* Of two records inserted one is left after a Delete.
C11_Witness ==
    /\ Cardinality(DOMAIN userCache) = 1
    /\ Deletes # {}
    /\ Cardinality(Inserts) = 2

\* C12 (as claimed): every answered request has the outcome that validation
\* and membership determine: 400 for a malformed id, the mapping untouched;
\* 404 for an id that is absent when the handler accesses the mapping; 200 on
\* Get and 204 on Delete for one that is present; 204 for a valid Insert.
C12_OutcomeByMembership ==
    /\ \A r \in Answered("POST") :
          ~InvalidBody(req[r].body[1]) => resp[r].status = StatusNoContent
    /\ \A r \in Answered("GET") \cup Answered("DELETE") :
          /\ InvalidPath(req[r].path) =>
                /\ resp[r].status = StatusBadRequest
                /\ eff[r] = "none"
                /\ r \notin acquired
          /\ eff[r] = "absent" => resp[r].status = StatusNotFound
          /\ eff[r] = "present" =>
                resp[r].status = IF req[r].method = "GET" THEN StatusOK
                                 ELSE StatusNoContent

\* C13 (as claimed): the step in which an Insert stores its record adds
\* exactly one entry and leaves every entry that was in the mapping as it
\* was.
C13_InsertAddsOneEntry ==
    [][\A r \in Requests :
          (pc[r] = "c_assign" /\ pc'[r] = "done") =>
              /\ Cardinality(DOMAIN userCache') = Cardinality(DOMAIN userCache) + 1
              /\ \A k \in DOMAIN userCache :
                    k \in DOMAIN userCache' /\ userCache'[k] = userCache[k]]_vars

\* C14: from the empty store, as long as no Delete has been executed, the
\* mapping holds exactly the ids 1..n after n Inserts, and the k-th Insert to
\* hold the write lock has stored its record under id k.
C14_IdsCountUp ==
    Deletes = {} =>
        /\ DOMAIN userCache = 1..Len(log)
        /\ \A k \in DOMAIN log :
              key[log[k]] = k /\ userCache[k] = User(req[log[k]].body[1].name[1])

\* Three Inserts have stored their records, not in the order of their
\* arrival, and no Delete was executed.
C14_Witness ==
    /\ Deletes = {}
    /\ Len(log) = 3
    /\ log # <<1, 2, 3>>

\* C15 (as claimed): no reachable state is a deadlock: while the handler of
\* some request has not answered, some handler can take a step (the holder
\* of cacheMutex releases it, so whoever waits for it gets it).
C15_NoDeadlock == InFlight # {} => ENABLED Next

\* What is left of C15 when the fatal error is set aside: cacheMutex is held
\* exactly by the handlers inside their critical sections, a handler can
\* always take a step while the process lives, and under FairSpec every
\* request that has arrived is answered unless the process dies.
C15_GuardHeldOnlyInside ==
    /\ \A r \in Requests : mutexW = r <=> pc[r] \in {"c_assign", "d_delete"}
    /\ mutexR = {r \in Requests : pc[r] = "g_runlock"}
    /\ (~crashed /\ InFlight # {}) => ENABLED Next

C15_AnsweredUnlessCrashed ==
    \A r \in 1..MaxRequests : (pc[r] # "idle") ~> (pc[r] = "done" \/ crashed)

\* C16: no step of a Get changes the mapping, whatever its id, and a step of
\* a Delete of id i changes no entry other than i.
C16_GetAndDeleteFrame ==
    [][\A r \in Requests :
          pc'[r] # pc[r] =>
              /\ req'[r].method = "GET" => userCache' = userCache
              /\ req'[r].method = "DELETE" =>
                    \A k \in (DOMAIN userCache \cup DOMAIN userCache') \ {id'[r]} :
                        Content(userCache', k) = Content(userCache, k)]_vars

\* A Get has found its id and answered 200, and a Delete has removed an
\* entry.
C16_Witness ==
    /\ \E g \in Answered("GET") : resp[g].status = StatusOK
    /\ \E d \in Deletes : eff[log[d]] = "present"

====
